---- MODULE Spec2Model ----
(***************************************************************************)
(* Model of lxc_idmap_v2.py: the command line is parsed into point         *)
(* mappings (IdType, lxc_id, host_id), the points are validated and        *)
(* sorted, and create_idmaps walks them to emit lxc.idmap range lines.     *)
(*                                                                         *)
(* Text is modelled as sequences of characters, so split() and int() are   *)
(* computed as the code computes them.  A character is a one-character     *)
(* string; a character such a string cannot hold (the backquote, and all   *)
(* outside printable ASCII and the escapes \t \n \r \f) is written by its  *)
(* code point, "U+0060", "U+0663".                                         *)
(* The output is a sequence of lines (each "\n" of the code starts a new   *)
(* line); an "lxc.idmap = t a b n" line is the tuple <<t, a, b, n>>, a     *)
(* "root:id:1" line the tuple <<"root", id, 1>>.  The help message that    *)
(* argparse writes is one entry of stdout holding the whole text, a        *)
(* sequence of characters.                                                 *)
(***************************************************************************)
EXTENDS Integers, Sequences, FiniteSets, TLC

VARIABLES argv, pc, args, ids, output, stdout, exc

vars == <<argv, pc, args, ids, output, stdout, exc>>

---------------------------------------------------------------------------
(* Program constants *)

min_id == 1
max_id == 65536
SpaceSize == 65536
FillerOffset == 100000

(* Bounds of the explored inputs *)

\* ids tried: 0 .. MaxSmallId and max_id-1 .. max_id+1
MaxSmallId == 1
\* total size of the command line after the program name: a flag word or
\* "--" counts 1, a token counts one per number, one per separator and one
\* for the word itself
MaxArgvCost == 8
\* total size of the command lines whose words come in any order
MaxFreeCost == 4

IdValues == (0 .. MaxSmallId) \cup ((max_id - 1) .. (max_id + 1))

---------------------------------------------------------------------------
(* IdType *)

USER == "u"
GROUP == "g"
None == "None"

sort_order(id_type) == IF id_type = USER THEN 0 ELSE 1

upper(id_type) == IF id_type = USER THEN "U" ELSE "G"

\* an exception: its type, the class letter and the id of an IdError
\* message, the code of a SystemExit
NoExc == [type |-> "none", id_type |-> "", id |-> 0, code |-> ""]

ValueError == [NoExc EXCEPT !.type = "ValueError"]
AttributeError == [NoExc EXCEPT !.type = "AttributeError"]
IndexError == [NoExc EXCEPT !.type = "IndexError"]
SystemExit(code) == [NoExc EXCEPT !.type = "SystemExit", !.code = code]

\* variant: the message always says UID
IdError_always_user(_id, id_type) ==
    [NoExc EXCEPT !.type = "IdError", !.id_type = "U", !.id = _id]

\* IdError(_id, id_type): the message names the class letter and the id
IdError(_id, id_type) ==
    [NoExc EXCEPT !.type = "IdError", !.id_type = upper(id_type), !.id = _id]

---------------------------------------------------------------------------
(* Text helpers: str.split(sep) and int(str) *)

Last(s) == s[Len(s)]
Front(s) == SubSeq(s, 1, Len(s) - 1)

RECURSIVE split(_, _)
split(s, sep) ==
    IF \E i \in 1 .. Len(s) : s[i] = sep
    THEN LET i == CHOOSE j \in 1 .. Len(s) :
                     s[j] = sep /\ \A k \in 1 .. (j - 1) : s[k] # sep
         IN <<SubSeq(s, 1, i - 1)>> \o split(SubSeq(s, i + 1, Len(s)), sep)
    ELSE <<s>>

Digit == <<"0", "1", "2", "3", "4", "5", "6", "7", "8", "9">>

\* the characters int() strips from both ends of its text
WhiteSpace ==
    {"\t", "\n", "U+000B", "\f", "\r", " ", "U+0085", "U+00A0", "U+1680",
     "U+2000", "U+2001", "U+2002", "U+2003", "U+2004", "U+2005",
     "U+2006", "U+2007", "U+2008", "U+2009", "U+200A", "U+2028",
     "U+2029", "U+202F", "U+205F", "U+3000"}

\* DecimalDigit[d + 1]: the characters int() reads as the digit d, the
\* decimal digits of every script
DecimalDigit ==
    << {"0", "U+0660", "U+06F0", "U+07C0", "U+0966", "U+09E6", "U+0A66",
        "U+0AE6", "U+0B66", "U+0BE6", "U+0C66", "U+0CE6", "U+0D66",
        "U+0DE6", "U+0E50", "U+0ED0", "U+0F20", "U+1040", "U+1090",
        "U+17E0", "U+1810", "U+1946", "U+19D0", "U+1A80", "U+1A90",
        "U+1B50", "U+1BB0", "U+1C40", "U+1C50", "U+A620", "U+A8D0",
        "U+A900", "U+A9D0", "U+A9F0", "U+AA50", "U+ABF0", "U+FF10",
        "U+104A0", "U+10D30", "U+11066", "U+110F0", "U+11136", "U+111D0",
        "U+112F0", "U+11450", "U+114D0", "U+11650", "U+116C0", "U+11730",
        "U+118E0", "U+11950", "U+11C50", "U+11D50", "U+11DA0", "U+16A60",
        "U+16AC0", "U+16B50", "U+1D7CE", "U+1D7D8", "U+1D7E2", "U+1D7EC",
        "U+1D7F6", "U+1E140", "U+1E2F0", "U+1E950", "U+1FBF0"},
       {"1", "U+0661", "U+06F1", "U+07C1", "U+0967", "U+09E7", "U+0A67",
        "U+0AE7", "U+0B67", "U+0BE7", "U+0C67", "U+0CE7", "U+0D67",
        "U+0DE7", "U+0E51", "U+0ED1", "U+0F21", "U+1041", "U+1091",
        "U+17E1", "U+1811", "U+1947", "U+19D1", "U+1A81", "U+1A91",
        "U+1B51", "U+1BB1", "U+1C41", "U+1C51", "U+A621", "U+A8D1",
        "U+A901", "U+A9D1", "U+A9F1", "U+AA51", "U+ABF1", "U+FF11",
        "U+104A1", "U+10D31", "U+11067", "U+110F1", "U+11137", "U+111D1",
        "U+112F1", "U+11451", "U+114D1", "U+11651", "U+116C1", "U+11731",
        "U+118E1", "U+11951", "U+11C51", "U+11D51", "U+11DA1", "U+16A61",
        "U+16AC1", "U+16B51", "U+1D7CF", "U+1D7D9", "U+1D7E3", "U+1D7ED",
        "U+1D7F7", "U+1E141", "U+1E2F1", "U+1E951", "U+1FBF1"},
       {"2", "U+0662", "U+06F2", "U+07C2", "U+0968", "U+09E8", "U+0A68",
        "U+0AE8", "U+0B68", "U+0BE8", "U+0C68", "U+0CE8", "U+0D68",
        "U+0DE8", "U+0E52", "U+0ED2", "U+0F22", "U+1042", "U+1092",
        "U+17E2", "U+1812", "U+1948", "U+19D2", "U+1A82", "U+1A92",
        "U+1B52", "U+1BB2", "U+1C42", "U+1C52", "U+A622", "U+A8D2",
        "U+A902", "U+A9D2", "U+A9F2", "U+AA52", "U+ABF2", "U+FF12",
        "U+104A2", "U+10D32", "U+11068", "U+110F2", "U+11138", "U+111D2",
        "U+112F2", "U+11452", "U+114D2", "U+11652", "U+116C2", "U+11732",
        "U+118E2", "U+11952", "U+11C52", "U+11D52", "U+11DA2", "U+16A62",
        "U+16AC2", "U+16B52", "U+1D7D0", "U+1D7DA", "U+1D7E4", "U+1D7EE",
        "U+1D7F8", "U+1E142", "U+1E2F2", "U+1E952", "U+1FBF2"},
       {"3", "U+0663", "U+06F3", "U+07C3", "U+0969", "U+09E9", "U+0A69",
        "U+0AE9", "U+0B69", "U+0BE9", "U+0C69", "U+0CE9", "U+0D69",
        "U+0DE9", "U+0E53", "U+0ED3", "U+0F23", "U+1043", "U+1093",
        "U+17E3", "U+1813", "U+1949", "U+19D3", "U+1A83", "U+1A93",
        "U+1B53", "U+1BB3", "U+1C43", "U+1C53", "U+A623", "U+A8D3",
        "U+A903", "U+A9D3", "U+A9F3", "U+AA53", "U+ABF3", "U+FF13",
        "U+104A3", "U+10D33", "U+11069", "U+110F3", "U+11139", "U+111D3",
        "U+112F3", "U+11453", "U+114D3", "U+11653", "U+116C3", "U+11733",
        "U+118E3", "U+11953", "U+11C53", "U+11D53", "U+11DA3", "U+16A63",
        "U+16AC3", "U+16B53", "U+1D7D1", "U+1D7DB", "U+1D7E5", "U+1D7EF",
        "U+1D7F9", "U+1E143", "U+1E2F3", "U+1E953", "U+1FBF3"},
       {"4", "U+0664", "U+06F4", "U+07C4", "U+096A", "U+09EA", "U+0A6A",
        "U+0AEA", "U+0B6A", "U+0BEA", "U+0C6A", "U+0CEA", "U+0D6A",
        "U+0DEA", "U+0E54", "U+0ED4", "U+0F24", "U+1044", "U+1094",
        "U+17E4", "U+1814", "U+194A", "U+19D4", "U+1A84", "U+1A94",
        "U+1B54", "U+1BB4", "U+1C44", "U+1C54", "U+A624", "U+A8D4",
        "U+A904", "U+A9D4", "U+A9F4", "U+AA54", "U+ABF4", "U+FF14",
        "U+104A4", "U+10D34", "U+1106A", "U+110F4", "U+1113A", "U+111D4",
        "U+112F4", "U+11454", "U+114D4", "U+11654", "U+116C4", "U+11734",
        "U+118E4", "U+11954", "U+11C54", "U+11D54", "U+11DA4", "U+16A64",
        "U+16AC4", "U+16B54", "U+1D7D2", "U+1D7DC", "U+1D7E6", "U+1D7F0",
        "U+1D7FA", "U+1E144", "U+1E2F4", "U+1E954", "U+1FBF4"},
       {"5", "U+0665", "U+06F5", "U+07C5", "U+096B", "U+09EB", "U+0A6B",
        "U+0AEB", "U+0B6B", "U+0BEB", "U+0C6B", "U+0CEB", "U+0D6B",
        "U+0DEB", "U+0E55", "U+0ED5", "U+0F25", "U+1045", "U+1095",
        "U+17E5", "U+1815", "U+194B", "U+19D5", "U+1A85", "U+1A95",
        "U+1B55", "U+1BB5", "U+1C45", "U+1C55", "U+A625", "U+A8D5",
        "U+A905", "U+A9D5", "U+A9F5", "U+AA55", "U+ABF5", "U+FF15",
        "U+104A5", "U+10D35", "U+1106B", "U+110F5", "U+1113B", "U+111D5",
        "U+112F5", "U+11455", "U+114D5", "U+11655", "U+116C5", "U+11735",
        "U+118E5", "U+11955", "U+11C55", "U+11D55", "U+11DA5", "U+16A65",
        "U+16AC5", "U+16B55", "U+1D7D3", "U+1D7DD", "U+1D7E7", "U+1D7F1",
        "U+1D7FB", "U+1E145", "U+1E2F5", "U+1E955", "U+1FBF5"},
       {"6", "U+0666", "U+06F6", "U+07C6", "U+096C", "U+09EC", "U+0A6C",
        "U+0AEC", "U+0B6C", "U+0BEC", "U+0C6C", "U+0CEC", "U+0D6C",
        "U+0DEC", "U+0E56", "U+0ED6", "U+0F26", "U+1046", "U+1096",
        "U+17E6", "U+1816", "U+194C", "U+19D6", "U+1A86", "U+1A96",
        "U+1B56", "U+1BB6", "U+1C46", "U+1C56", "U+A626", "U+A8D6",
        "U+A906", "U+A9D6", "U+A9F6", "U+AA56", "U+ABF6", "U+FF16",
        "U+104A6", "U+10D36", "U+1106C", "U+110F6", "U+1113C", "U+111D6",
        "U+112F6", "U+11456", "U+114D6", "U+11656", "U+116C6", "U+11736",
        "U+118E6", "U+11956", "U+11C56", "U+11D56", "U+11DA6", "U+16A66",
        "U+16AC6", "U+16B56", "U+1D7D4", "U+1D7DE", "U+1D7E8", "U+1D7F2",
        "U+1D7FC", "U+1E146", "U+1E2F6", "U+1E956", "U+1FBF6"},
       {"7", "U+0667", "U+06F7", "U+07C7", "U+096D", "U+09ED", "U+0A6D",
        "U+0AED", "U+0B6D", "U+0BED", "U+0C6D", "U+0CED", "U+0D6D",
        "U+0DED", "U+0E57", "U+0ED7", "U+0F27", "U+1047", "U+1097",
        "U+17E7", "U+1817", "U+194D", "U+19D7", "U+1A87", "U+1A97",
        "U+1B57", "U+1BB7", "U+1C47", "U+1C57", "U+A627", "U+A8D7",
        "U+A907", "U+A9D7", "U+A9F7", "U+AA57", "U+ABF7", "U+FF17",
        "U+104A7", "U+10D37", "U+1106D", "U+110F7", "U+1113D", "U+111D7",
        "U+112F7", "U+11457", "U+114D7", "U+11657", "U+116C7", "U+11737",
        "U+118E7", "U+11957", "U+11C57", "U+11D57", "U+11DA7", "U+16A67",
        "U+16AC7", "U+16B57", "U+1D7D5", "U+1D7DF", "U+1D7E9", "U+1D7F3",
        "U+1D7FD", "U+1E147", "U+1E2F7", "U+1E957", "U+1FBF7"},
       {"8", "U+0668", "U+06F8", "U+07C8", "U+096E", "U+09EE", "U+0A6E",
        "U+0AEE", "U+0B6E", "U+0BEE", "U+0C6E", "U+0CEE", "U+0D6E",
        "U+0DEE", "U+0E58", "U+0ED8", "U+0F28", "U+1048", "U+1098",
        "U+17E8", "U+1818", "U+194E", "U+19D8", "U+1A88", "U+1A98",
        "U+1B58", "U+1BB8", "U+1C48", "U+1C58", "U+A628", "U+A8D8",
        "U+A908", "U+A9D8", "U+A9F8", "U+AA58", "U+ABF8", "U+FF18",
        "U+104A8", "U+10D38", "U+1106E", "U+110F8", "U+1113E", "U+111D8",
        "U+112F8", "U+11458", "U+114D8", "U+11658", "U+116C8", "U+11738",
        "U+118E8", "U+11958", "U+11C58", "U+11D58", "U+11DA8", "U+16A68",
        "U+16AC8", "U+16B58", "U+1D7D6", "U+1D7E0", "U+1D7EA", "U+1D7F4",
        "U+1D7FE", "U+1E148", "U+1E2F8", "U+1E958", "U+1FBF8"},
       {"9", "U+0669", "U+06F9", "U+07C9", "U+096F", "U+09EF", "U+0A6F",
        "U+0AEF", "U+0B6F", "U+0BEF", "U+0C6F", "U+0CEF", "U+0D6F",
        "U+0DEF", "U+0E59", "U+0ED9", "U+0F29", "U+1049", "U+1099",
        "U+17E9", "U+1819", "U+194F", "U+19D9", "U+1A89", "U+1A99",
        "U+1B59", "U+1BB9", "U+1C49", "U+1C59", "U+A629", "U+A8D9",
        "U+A909", "U+A9D9", "U+A9F9", "U+AA59", "U+ABF9", "U+FF19",
        "U+104A9", "U+10D39", "U+1106F", "U+110F9", "U+1113F", "U+111D9",
        "U+112F9", "U+11459", "U+114D9", "U+11659", "U+116C9", "U+11739",
        "U+118E9", "U+11959", "U+11C59", "U+11D59", "U+11DA9", "U+16A69",
        "U+16AC9", "U+16B59", "U+1D7D7", "U+1D7E1", "U+1D7EB", "U+1D7F5",
        "U+1D7FF", "U+1E149", "U+1E2F9", "U+1E959", "U+1FBF9"} >>

IsDigit(c) == \E d \in 1 .. 10 : c \in DecimalDigit[d]

DigitValue(c) == (CHOOSE d \in 1 .. 10 : c \in DecimalDigit[d]) - 1

RECURSIVE lstrip(_)
lstrip(s) == IF s # <<>> /\ Head(s) \in WhiteSpace THEN lstrip(Tail(s)) ELSE s

RECURSIVE rstrip(_)
rstrip(s) == IF s # <<>> /\ Last(s) \in WhiteSpace THEN rstrip(Front(s)) ELSE s

strip(s) == rstrip(lstrip(s))

\* the text of s after its white space and its sign are taken off
Unsigned(s) ==
    LET t == strip(s)
    IN IF t # <<>> /\ Head(t) \in {"+", "-"} THEN Tail(t) ELSE t

IsNegative(s) == LET t == strip(s) IN t # <<>> /\ Head(t) = "-"

\* sys.get_int_max_str_digits()
max_str_digits == 4300

\* int(s) raises ValueError unless s is, between white space, an optional
\* sign and digits with single underscores between them, of at most
\* max_str_digits digits
IsInt(s) ==
    LET t == Unsigned(s) IN
    /\ t # <<>>
    /\ IsDigit(Head(t))
    /\ IsDigit(Last(t))
    /\ \A i \in 1 .. Len(t) : IsDigit(t[i]) \/ t[i] = "_"
    /\ \A i \in 1 .. (Len(t) - 1) : ~(t[i] = "_" /\ t[i + 1] = "_")
    /\ \/ Len(t) <= max_str_digits
       \/ Cardinality({i \in 1 .. Len(t) : t[i] # "_"}) <= max_str_digits

\* the number written by digits and underscores
RECURSIVE digits_value(_)
digits_value(t) ==
    IF t = <<>> THEN 0
    ELSE IF Last(t) = "_" THEN digits_value(Front(t))
    ELSE 10 * digits_value(Front(t)) + DigitValue(Last(t))

int(s) == IF IsNegative(s) THEN 0 - digits_value(Unsigned(s))
          ELSE digits_value(Unsigned(s))

\* str(n), used to write the command line
RECURSIVE str(_)
str(n) == IF n < 0 THEN <<"-">> \o str(0 - n)
          ELSE IF n < 10 THEN <<Digit[n + 1]>>
          ELSE str(n \div 10) \o <<Digit[(n % 10) + 1]>>

---------------------------------------------------------------------------
(* The command lines explored: option pairs, an optional "--" and mappings, *)
(* and short command lines of words in any order                           *)

Prog == <<"l", "x", "c">>
FlagHelp == <<"-", "h">>
LongHelp == <<"-", "-", "h", "e", "l", "p">>
FlagUser == <<"-", "u">>
LongUser == <<"-", "-", "u", "s", "e", "r">>
FlagGroup == <<"-", "g">>
LongGroup == <<"-", "-", "g", "r", "o", "u", "p">>
DashDash == <<"-", "-">>
\* a flag the parser does not know
FlagUnknown == <<"-", "x">>

\* one side of a token: "a" (0 colons) or "a:b" (1 colon)
Side(colons) ==
    IF colons = 0 THEN {str(a) : a \in IdValues}
    ELSE {str(a) \o <<":">> \o str(b) : a \in IdValues, b \in IdValues}

\* tokens lxc_uid[:lxc_gid][=host_uid[:host_gid]] with `seps` separators
MappingTokens(seps) ==
    CASE seps = 0 -> Side(0)
      [] seps = 1 -> Side(1) \cup {l \o <<"=">> \o h : l \in Side(0), h \in Side(0)}
      [] seps = 2 -> {l \o <<"=">> \o h : l \in Side(1), h \in Side(0)}
                     \cup {l \o <<"=">> \o h : l \in Side(0), h \in Side(1)}
      [] seps = 3 -> {l \o <<"=">> \o h : l \in Side(1), h \in Side(1)}
      [] OTHER -> {}

\* tokens id[=host_id] with `seps` separators
OptionTokens(seps) ==
    CASE seps = 0 -> Side(0)
      [] seps = 1 -> {l \o <<"=">> \o h : l \in Side(0), h \in Side(0)}
      [] OTHER -> {}

TokenCost(seps) == 2 * seps + 2

Seps(word) == Cardinality({i \in 1 .. Len(word) : word[i] \in {"=", ":"}})

RECURSIVE ArgvCost(_)
ArgvCost(words) ==
    IF words = <<>> THEN 0
    ELSE (IF Head(words) \in {FlagUser, FlagGroup, DashDash} THEN 1
          ELSE TokenCost(Seps(Head(words))))
         + ArgvCost(Tail(words))

\* the number texts of the short command lines: the ids tried and -1
FreeNumbers == {str(a) : a \in IdValues \cup {0 - 1}}

\* FreeWords[c]: the words of cost c of the short command lines: the flags,
\* an unknown flag and "--" (1), a number (2), an option with its number
\* attached (3), a token id=host_id or lxc_uid:lxc_gid (4)
FreeWords ==
    << {FlagUser, FlagGroup, LongUser, LongGroup, FlagHelp, FlagUnknown, DashDash},
       FreeNumbers,
       {f \o a : f \in {FlagUser, FlagGroup, LongUser \o <<"=">>, LongGroup \o <<"=">>},
                 a \in FreeNumbers},
       {a \o <<s>> \o b : a \in FreeNumbers, s \in {"=", ":"}, b \in FreeNumbers} >>

\* FreeLines[b]: the sequences of these words of total cost at most b
FreeLines[budget \in 0 .. MaxFreeCost] ==
    {<<>>} \cup UNION {
        {<<w>> \o rest : w \in FreeWords[c], rest \in FreeLines[budget - c]}
        : c \in {n \in 1 .. Len(FreeWords) : n <= budget}}

\* MappingWords[b]: the sequences of mapping words of total cost at most b
MappingWords[budget \in 0 .. MaxArgvCost] ==
    {<<>>} \cup UNION {
        {<<t>> \o rest : t \in MappingTokens(seps),
                         rest \in MappingWords[budget - TokenCost(seps)]}
        : seps \in {n \in 0 .. 3 : TokenCost(n) <= budget}}

\* OptionWords[b]: the sequences of "-u tok" / "-g tok" pairs of total cost
\* at most b
OptionWords[budget \in 0 .. MaxArgvCost] ==
    {<<>>} \cup UNION {
        {<<f, t>> \o rest : f \in {FlagUser, FlagGroup}, t \in OptionTokens(seps),
                            rest \in OptionWords[budget - 1 - TokenCost(seps)]}
        : seps \in {n \in 0 .. 1 : 1 + TokenCost(n) <= budget}}

\* the command lines of total cost at most MaxArgvCost made of option pairs,
\* an optional "--" and mappings, and those of total cost at most
\* MaxFreeCost made of any words
IsArgv(words) ==
    \/ \E o \in OptionWords[MaxArgvCost] :
           \E dd \in {d \in {<<>>, <<DashDash>>} : ArgvCost(o) + Len(d) <= MaxArgvCost} :
               \E m \in MappingWords[MaxArgvCost - ArgvCost(o) - Len(dd)] :
                   words = <<Prog>> \o o \o dd \o m
    \/ \E line \in FreeLines[MaxFreeCost] : words = <<Prog>> \o line

---------------------------------------------------------------------------
(* argparse: parser.parse_args() on sys.argv[1:] *)

EmptyArgs == [mappings |-> <<>>, user |-> <<>>, group |-> <<>>]

\* None where a text is expected: the value appended by an option that was
\* given no value (nargs='?', const=None)
NoneValue == <<None>>

\* parser._option_string_actions: the option strings and the dest of their
\* action
option_string_actions ==
    << <<FlagHelp, "help">>, <<LongHelp, "help">>,
       <<FlagUser, "user">>, <<LongUser, "user">>,
       <<FlagGroup, "group">>, <<LongGroup, "group">> >>

OptionStrings ==
    {option_string_actions[k][1] : k \in 1 .. Len(option_string_actions)}

action_of(option_string) ==
    LET k == CHOOSE j \in 1 .. Len(option_string_actions) :
                 option_string_actions[j][1] = option_string
    IN option_string_actions[k][2]

startswith(s, prefix) ==
    Len(prefix) <= Len(s) /\ SubSeq(s, 1, Len(prefix)) = prefix

contains(s, c) == \E i \in 1 .. Len(s) : s[i] = c

\* arg_string.split('=', 1)[1]
after_equals(arg_string) ==
    SubSeq(arg_string, Len(Head(split(arg_string, "="))) + 2, Len(arg_string))

\* what _parse_optional makes of a word: a positional 'A', an optional 'O'
\* with its action ("none" for an option the parser does not know), option
\* string and explicit argument, or an ambiguous abbreviation
Positional ==
    [kind |-> "A", action |-> "none", option_string |-> <<>>,
     explicit_arg |-> NoneValue]

Optional(action, option_string, explicit_arg) ==
    [kind |-> "O", action |-> action, option_string |-> option_string,
     explicit_arg |-> explicit_arg]

Ambiguous == [Positional EXCEPT !.kind = "error"]

Separator == [Positional EXCEPT !.kind = "-"]

\* _get_option_tuples: a long option may be abbreviated and carry "=value",
\* a short option may have its value attached
get_option_tuples(arg_string) ==
    IF arg_string[2] = "-"
    THEN LET option_prefix == Head(split(arg_string, "="))
             explicit_arg == IF contains(arg_string, "=")
                             THEN after_equals(arg_string) ELSE NoneValue
         IN {Optional(action_of(o), o, explicit_arg) :
                 o \in {s \in OptionStrings : startswith(s, option_prefix)}}
    ELSE {Optional(action_of(o), o, SubSeq(arg_string, 3, Len(arg_string))) :
              o \in {s \in OptionStrings : s = SubSeq(arg_string, 1, 2)}}
         \cup {Optional(action_of(o), o, NoneValue) :
                   o \in {s \in OptionStrings : /\ s # SubSeq(arg_string, 1, 2)
                                                /\ startswith(s, arg_string)}}

AllDigits(s) == \A i \in 1 .. Len(s) : IsDigit(s[i])

\* parser._negative_number_matcher, '^-\d+$|^-\d*\.\d+$'; $ also matches
\* before a newline that ends the text
negative_number_matcher(arg_string) ==
    LET s == IF arg_string # <<>> /\ Last(arg_string) = "\n"
             THEN Front(arg_string) ELSE arg_string
    IN /\ Len(s) >= 2
       /\ s[1] = "-"
       /\ \/ AllDigits(Tail(s))
          \/ \E p \in 2 .. (Len(s) - 1) :
                 /\ s[p] = "."
                 /\ AllDigits(SubSeq(s, 2, p - 1))
                 /\ AllDigits(SubSeq(s, p + 1, Len(s)))

parse_optional(arg_string) ==
    LET option_tuples == get_option_tuples(arg_string) IN
    IF arg_string = <<>> THEN Positional
    ELSE IF arg_string[1] # "-" THEN Positional
    ELSE IF arg_string \in OptionStrings
    THEN Optional(action_of(arg_string), arg_string, NoneValue)
    ELSE IF Len(arg_string) = 1 THEN Positional
    ELSE IF /\ contains(arg_string, "=")
            /\ Head(split(arg_string, "=")) \in OptionStrings
    THEN Optional(action_of(Head(split(arg_string, "="))),
                  Head(split(arg_string, "=")), after_equals(arg_string))
    ELSE IF Cardinality(option_tuples) > 1 THEN Ambiguous
    ELSE IF Cardinality(option_tuples) = 1
    THEN CHOOSE option_tuple \in option_tuples : TRUE
    ELSE IF negative_number_matcher(arg_string) THEN Positional
    ELSE IF contains(arg_string, " ") THEN Positional
    ELSE Optional("none", arg_string, NoneValue)

\* arg_strings_pattern with option_string_indices: the first "--" is '-' and
\* every word after it is 'A'
RECURSIVE classify(_, _)
classify(arg_strings, after_separator) ==
    IF arg_strings = <<>> THEN <<>>
    ELSE IF after_separator
    THEN <<Positional>> \o classify(Tail(arg_strings), TRUE)
    ELSE IF Head(arg_strings) = DashDash
    THEN <<Separator>> \o classify(Tail(arg_strings), TRUE)
    ELSE <<parse_optional(Head(arg_strings))>>
             \o classify(Tail(arg_strings), FALSE)

arg_strings_pattern(arg_strings) == classify(arg_strings, FALSE)

\* _get_values removes the first "--" from the strings of an argument
RECURSIVE remove_separator(_)
remove_separator(strings) ==
    IF strings = <<>> THEN <<>>
    ELSE IF Head(strings) = DashDash THEN Tail(strings)
    ELSE <<Head(strings)>> \o remove_separator(Tail(strings))

\* _get_values for -u/-g (nargs='?'): the one string, const when none is left
option_value(strings) ==
    IF remove_separator(strings) = <<>> THEN NoneValue
    ELSE Head(remove_separator(strings))

NoExit == "none"

\* the help action of "-h"/"--help": parser.exit() with status 0, or the
\* error (status 2) of an explicit argument that is not a run of short
\* options
RECURSIVE help_status(_, _)
help_status(option_string, explicit_arg) ==
    IF explicit_arg = NoneValue THEN "0"
    ELSE IF option_string[2] = "-" \/ explicit_arg = <<>> THEN "2"
    ELSE LET next_string == <<"-", Head(explicit_arg)>>
             new_explicit_arg == IF Len(explicit_arg) = 1 THEN NoneValue
                                 ELSE Tail(explicit_arg)
         IN IF next_string \notin OptionStrings THEN "2"
            ELSE IF action_of(next_string) = "help"
            THEN help_status(next_string, new_explicit_arg)
            ELSE "0"

\* the parser at work: the namespace, whether the positional `mappings` is
\* still to be consumed, whether there are extras, the index of the next
\* word, and the exit status once the parser has exited
StartState ==
    [mappings |-> <<>>, user |-> <<>>, group |-> <<>>, positionals |-> TRUE,
     extras |-> FALSE, start_index |-> 1, status |-> NoExit]

\* consume_optional at the option of index st.start_index
consume_optional(arg_strings, pattern, st) ==
    LET i == st.start_index
        option_tuple == pattern[i]
        follows == /\ option_tuple.explicit_arg = NoneValue
                   /\ i < Len(arg_strings)
                   /\ pattern[i + 1].kind = "A"
        strings == IF option_tuple.explicit_arg # NoneValue
                   THEN <<option_tuple.explicit_arg>>
                   ELSE IF follows THEN <<arg_strings[i + 1]>>
                   ELSE <<>>
        stop == IF follows THEN i + 2 ELSE i + 1
    IN IF option_tuple.action = "none"
       THEN [st EXCEPT !.extras = TRUE, !.start_index = i + 1]
       ELSE IF option_tuple.action = "help"
       THEN [st EXCEPT !.status = help_status(option_tuple.option_string,
                                              option_tuple.explicit_arg)]
       ELSE IF option_tuple.action = "user"
       THEN [st EXCEPT !.user = Append(@, option_value(strings)),
                       !.start_index = stop]
       ELSE [st EXCEPT !.group = Append(@, option_value(strings)),
                       !.start_index = stop]

\* the loop of parse_known_args: positionals and optionals are consumed in
\* turn; `mappings` is consumed once, by the first run of positionals or at
\* the end, and a positional met after that is an extra
RECURSIVE consume(_, _, _)
consume(arg_strings, pattern, st) ==
    LET i == st.start_index
        option_string_indices ==
            {k \in 1 .. Len(arg_strings) : pattern[k].kind = "O" /\ k >= i}
        next_option_string_index ==
            CHOOSE k \in option_string_indices :
                \A j \in option_string_indices : k <= j
    IN IF st.status # NoExit THEN st
       ELSE IF option_string_indices = {}
       THEN IF st.positionals
            THEN [st EXCEPT !.mappings = remove_separator(
                                SubSeq(arg_strings, i, Len(arg_strings))),
                            !.positionals = FALSE,
                            !.start_index = Len(arg_strings) + 1]
            ELSE [st EXCEPT !.extras = @ \/ i <= Len(arg_strings)]
       ELSE IF i # next_option_string_index /\ st.positionals
       THEN consume(arg_strings, pattern,
                    [st EXCEPT !.mappings = remove_separator(
                                   SubSeq(arg_strings, i,
                                          next_option_string_index - 1)),
                               !.positionals = FALSE,
                               !.start_index = next_option_string_index])
       ELSE consume(arg_strings, pattern,
                    consume_optional(arg_strings, pattern,
                        [st EXCEPT !.extras = @ \/ i # next_option_string_index,
                                   !.start_index = next_option_string_index]))

\* parse_known_args: an ambiguous abbreviation is an error before any word
\* is consumed
parse_known_args(arg_strings) ==
    LET pattern == arg_strings_pattern(arg_strings)
    IN IF \E i \in 1 .. Len(pattern) : pattern[i].kind = "error"
       THEN [StartState EXCEPT !.status = "2"]
       ELSE consume(arg_strings, pattern, StartState)

\* the code the parser exits with (0 after the help, 2 after an error or for
\* unrecognized arguments), NoExit when it returns
exit_status(st) ==
    IF st.status # NoExit THEN st.status
    ELSE IF st.extras THEN "2"
    ELSE NoExit

namespace(st) == [mappings |-> st.mappings, user |-> st.user, group |-> st.group]

\* parser.parse_args() on sys.argv[1:]: the code it exits with
parse_args_exit(sys_argv) == exit_status(parse_known_args(Tail(sys_argv)))

\* parser.parse_args() on sys.argv[1:]: the namespace it returns
parse_args(sys_argv) == namespace(parse_known_args(Tail(sys_argv)))

---------------------------------------------------------------------------
(* argparse: the help message of the parser of create_argparser, as        *)
(* HelpFormatter lays it out on 80 columns                                 *)

RECURSIVE spaces(_)
spaces(n) == IF n = 0 THEN <<>> ELSE <<" ">> \o spaces(n - 1)

\* "usage: "
usage_prefix ==
    <<"u", "s", "a", "g", "e", ":", " ">>

\* parser.format_usage(): the prefix and parser.prog, the options on the
\* first line, the positional wrapped under them
format_usage ==
    usage_prefix \o Prog \o
    <<" ", "[", "-", "h", "]", " ", "[", "-", "u", " ", "[", "U", "S", "E",
      "R", "]", "]", " ", "[", "-", "g", " ", "[", "G", "R", "O", "U", "P",
      "]", "]", "\n">> \o
    spaces(Len(usage_prefix) + Len(Prog) + 1) \o
    <<"[", "l", "x", "c", "_", "u", "i", "d", "[", ":", "l", "x", "c", "_",
      "g", "i", "d", "]", "[", "=", "h", "o", "s", "t", "_", "u", "i", "d",
      "[", ":", "h", "o", "s", "t", "_", "g", "i", "d", "]", "]", " ", ".",
      ".", ".", "]", "\n">>

\* the description and the help of each argument, one line of the message
\* after the other
help_sections ==
    <<"\n">> \o
    <<"S", "i", "m", "p", "l", "e", " ", "p", "y", "t", "h", "o", "n", " ",
      "t", "o", "o", "l", " ", "t", "o", " ", "p", "r", "o", "v", "i", "d",
      "e", " ", "u", "s", "e", "r", " ", "i", "d", " ", "m", "a", "p", "p",
      "i", "n", "g", "s", " ", "f", "o", "r", " ", "u", "n", "p", "r", "i",
      "v", "i", "l", "e", "g", "e", "d", " ", "L", "X", "C", "s", " ", "o",
      "n", "\n">> \o
    <<"P", "r", "o", "x", "m", "o", "x", ".", "\n">> \o
    <<"\n">> \o
    <<"p", "o", "s", "i", "t", "i", "o", "n", "a", "l", " ", "a", "r", "g",
      "u", "m", "e", "n", "t", "s", ":", "\n">> \o
    <<" ", " ", "l", "x", "c", "_", "u", "i", "d", "[", ":", "l", "x", "c",
      "_", "g", "i", "d", "]", "[", "=", "h", "o", "s", "t", "_", "u", "i",
      "d", "[", ":", "h", "o", "s", "t", "_", "g", "i", "d", "]", "]", "\n">> \o
    <<" ", " ", " ", " ", " ", " ", " ", " ", " ", " ", " ", " ", " ", " ",
      " ", " ", " ", " ", " ", " ", " ", " ", " ", " ", "C", "o", "n", "t",
      "a", "i", "n", "e", "r", " ", "u", "i", "d", " ", "a", "n", "d", " ",
      "o", "p", "t", "i", "o", "n", "a", "l", " ", "g", "i", "d", " ", "t",
      "o", " ", "m", "a", "p", " ", "t", "o", " ", "h", "o", "s", "t", ".",
      " ", "I", "f", " ", "a", "\n">> \o
    <<" ", " ", " ", " ", " ", " ", " ", " ", " ", " ", " ", " ", " ", " ",
      " ", " ", " ", " ", " ", " ", " ", " ", " ", " ", "g", "i", "d", " ",
      "i", "s", " ", "n", "o", "t", " ", "s", "p", "e", "c", "i", "f", "i",
      "e", "d", ",", " ", "t", "h", "e", " ", "u", "i", "d", " ", "w", "i",
      "l", "l", " ", "b", "e", " ", "u", "s", "e", "d", " ", "f", "o", "r",
      " ", "t", "h", "e", " ", "g", "i", "d", "\n">> \o
    <<" ", " ", " ", " ", " ", " ", " ", " ", " ", " ", " ", " ", " ", " ",
      " ", " ", " ", " ", " ", " ", " ", " ", " ", " ", "v", "a", "l", "u",
      "e", ",", " ", "u", "n", "l", "e", "s", "s", " ", "U+0060", "-", "U",
      "/", "-", "-", "u", "s", "e", "r", "U+0060", " ", "i", "s", " ", "p",
      "a", "s", "s", "e", "d", " ", "a", "s", " ", ".", "\n">> \o
    <<"\n">> \o
    <<"o", "p", "t", "i", "o", "n", "s", ":", "\n">> \o
    <<" ", " ", "-", "h", ",", " ", "-", "-", "h", "e", "l", "p", " ", " ",
      " ", " ", " ", " ", " ", " ", " ", " ", " ", " ", "s", "h", "o", "w",
      " ", "t", "h", "i", "s", " ", "h", "e", "l", "p", " ", "m", "e", "s",
      "s", "a", "g", "e", " ", "a", "n", "d", " ", "e", "x", "i", "t", "\n">> \o
    <<" ", " ", "-", "u", " ", "[", "U", "S", "E", "R", "]", ",", " ", "-",
      "-", "u", "s", "e", "r", " ", "[", "U", "S", "E", "R", "]", "\n">> \o
    <<" ", " ", " ", " ", " ", " ", " ", " ", " ", " ", " ", " ", " ", " ",
      " ", " ", " ", " ", " ", " ", " ", " ", " ", " ", "a", "c", "c", "e",
      "p", "t", "s", " ", "a", " ", "s", "i", "n", "g", "l", "e", " ", "c",
      "o", "n", "t", "a", "i", "n", "e", "r", " ", "u", "s", "e", "r", " ",
      "i", "d", " ", "(", "e", "x", ".", " ", "U+0060", "-", "u", " ", "1",
      "0", "0", "0", "U+0060", ")", ",", " ", "o", "r", "\n">> \o
    <<" ", " ", " ", " ", " ", " ", " ", " ", " ", " ", " ", " ", " ", " ",
      " ", " ", " ", " ", " ", " ", " ", " ", " ", " ", "c", "o", "n", "t",
      "a", "i", "n", "e", "r", " ", "u", "s", "e", "r", " ", "i", "d", " ",
      "a", "n", "d", " ", "h", "o", "s", "t", " ", "u", "s", "e", "r", " ",
      "i", "d", " ", "p", "a", "i", "r", " ", "s", "e", "p", "a", "r", "a",
      "t", "e", "d", " ", "b", "y", "\n">> \o
    <<" ", " ", " ", " ", " ", " ", " ", " ", " ", " ", " ", " ", " ", " ",
      " ", " ", " ", " ", " ", " ", " ", " ", " ", " ", "e", "q", "u", "a",
      "l", "s", " ", "s", "i", "g", "n", " ", "(", "e", "x", " ", "U+0060",
      "-", "u", " ", "1", "0", "0", "0", "=", "1", "0", "7", "U+0060", ")",
      ".", " ", "i", "f", " ", "n", "o", " ", "h", "o", "s", "t", " ", "i",
      "d", "\n">> \o
    <<" ", " ", " ", " ", " ", " ", " ", " ", " ", " ", " ", " ", " ", " ",
      " ", " ", " ", " ", " ", " ", " ", " ", " ", " ", "s", "p", "e", "c",
      "i", "f", "i", "e", "d", ",", " ", "i", "t", " ", "w", "i", "l", "l",
      " ", "b", "e", " ", "s", "e", "t", " ", "a", "s", " ", "t", "h", "e",
      " ", "s", "a", "m", "e", " ", "a", "s", " ", "t", "h", "e", " ", "c",
      "o", "n", "t", "a", "i", "n", "e", "r", "\n">> \o
    <<" ", " ", " ", " ", " ", " ", " ", " ", " ", " ", " ", " ", " ", " ",
      " ", " ", " ", " ", " ", " ", " ", " ", " ", " ", "i", "d", ".", " ",
      "U+0060", "-", "u", " ", "1", "0", "0", "0", "U+0060", " ", "i", "s",
      " ", "e", "q", "u", "i", "v", "a", "l", "e", "n", "t", " ", "t", "o",
      " ", "U+0060", "-", "u", " ", "1", "0", "0", "0", "=", "1", "0", "0",
      "0", "U+0060", ".", " ", "*", "N", "O", "\n">> \o
    <<" ", " ", " ", " ", " ", " ", " ", " ", " ", " ", " ", " ", " ", " ",
      " ", " ", " ", " ", " ", " ", " ", " ", " ", " ", "a", "s", "s", "o",
      "c", "i", "a", "t", "e", "d", " ", "g", "i", "d", " ", "m", "a", "p",
      "p", "i", "n", "g", " ", "w", "i", "l", "l", " ", "b", "e", " ", "c",
      "r", "e", "a", "t", "e", "d", ".", " ", "I", "f", " ", "t", "h", "i",
      "s", "\n">> \o
    <<" ", " ", " ", " ", " ", " ", " ", " ", " ", " ", " ", " ", " ", " ",
      " ", " ", " ", " ", " ", " ", " ", " ", " ", " ", "b", "e", "h", "a",
      "v", "i", "o", "r", " ", "i", "s", " ", "d", "e", "s", "i", "r", "e",
      "d", ",", " ", "s", "i", "o", "m", "p", "l", "y", " ", "s", "p", "e",
      "c", "i", "f", "y", " ", "t", "h", "e", " ", "i", "d", " ", "w", "i",
      "t", "h", "o", "u", "t", "\n">> \o
    <<" ", " ", " ", " ", " ", " ", " ", " ", " ", " ", " ", " ", " ", " ",
      " ", " ", " ", " ", " ", " ", " ", " ", " ", " ", "t", "h", "e", " ",
      "-", "u", "/", "-", "-", "u", "s", "e", "r", " ", "f", "l", "a", "g",
      " ", "(", "e", "x", ":", " ", "U+0060", "l", "x", "c", "_", "i", "d",
      "m", "a", "p", "p", "e", "r", " ", "1", "0", "0", "0", "U+0060", " ",
      "i", "s", "\n">> \o
    <<" ", " ", " ", " ", " ", " ", " ", " ", " ", " ", " ", " ", " ", " ",
      " ", " ", " ", " ", " ", " ", " ", " ", " ", " ", "e", "q", "u", "i",
      "v", "a", "l", "e", "n", "t", " ", "t", "o", " ", "U+0060", "l", "x",
      "c", "-", "i", "d", "m", "a", "p", "p", "e", "r", " ", "-", "u", " ",
      "1", "0", "0", "0", " ", "-", "g", " ", "1", "0", "0", "0", "U+0060",
      "\n">> \o
    <<" ", " ", "-", "g", " ", "[", "G", "R", "O", "U", "P", "]", ",", " ",
      "-", "-", "g", "r", "o", "u", "p", " ", "[", "G", "R", "O", "U", "P",
      "]", "\n">> \o
    <<" ", " ", " ", " ", " ", " ", " ", " ", " ", " ", " ", " ", " ", " ",
      " ", " ", " ", " ", " ", " ", " ", " ", " ", " ", "a", "c", "c", "e",
      "p", "t", "s", " ", "a", " ", "s", "i", "n", "g", "l", "e", " ", "c",
      "o", "n", "t", "a", "i", "n", "e", "r", " ", "g", "r", "o", "u", "p",
      " ", "i", "d", " ", "(", "e", "x", ".", " ", "U+0060", "-", "g", " ",
      "1", "0", "0", "0", "U+0060", ")", ",", "\n">> \o
    <<" ", " ", " ", " ", " ", " ", " ", " ", " ", " ", " ", " ", " ", " ",
      " ", " ", " ", " ", " ", " ", " ", " ", " ", " ", "o", "r", " ", "c",
      "o", "n", "t", "a", "i", "n", "e", "r", " ", "g", "r", "o", "u", "p",
      " ", "i", "d", " ", "a", "n", "d", " ", "h", "o", "s", "t", " ", "g",
      "r", "o", "u", "p", " ", "i", "d", " ", "p", "a", "i", "r", " ", "s",
      "e", "p", "a", "r", "a", "t", "e", "d", "\n">> \o
    <<" ", " ", " ", " ", " ", " ", " ", " ", " ", " ", " ", " ", " ", " ",
      " ", " ", " ", " ", " ", " ", " ", " ", " ", " ", "b", "y", " ", "e",
      "q", "u", "a", "l", "s", " ", "s", "i", "g", "n", " ", "(", "e", "x",
      " ", "U+0060", "-", "g", " ", "1", "0", "0", "0", "=", "1", "0", "7",
      "U+0060", ")", ".", " ", "i", "f", " ", "n", "o", " ", "h", "o", "s",
      "t", " ", "i", "d", "\n">> \o
    <<" ", " ", " ", " ", " ", " ", " ", " ", " ", " ", " ", " ", " ", " ",
      " ", " ", " ", " ", " ", " ", " ", " ", " ", " ", "s", "p", "e", "c",
      "i", "f", "i", "e", "d", ",", " ", "i", "t", " ", "w", "i", "l", "l",
      " ", "b", "e", " ", "s", "e", "t", " ", "a", "s", " ", "t", "h", "e",
      " ", "s", "a", "m", "e", " ", "a", "s", " ", "t", "h", "e", " ", "c",
      "o", "n", "t", "a", "i", "n", "e", "r", "\n">> \o
    <<" ", " ", " ", " ", " ", " ", " ", " ", " ", " ", " ", " ", " ", " ",
      " ", " ", " ", " ", " ", " ", " ", " ", " ", " ", "i", "d", ".", " ",
      "U+0060", "-", "u", " ", "1", "0", "0", "0", "U+0060", " ", "i", "s",
      " ", "e", "q", "u", "i", "v", "a", "l", "e", "n", "t", " ", "t", "o",
      " ", "U+0060", "-", "u", " ", "1", "0", "0", "0", "=", "1", "0", "0",
      "0", "U+0060", ".", " ", "N", "o", "\n">> \o
    <<" ", " ", " ", " ", " ", " ", " ", " ", " ", " ", " ", " ", " ", " ",
      " ", " ", " ", " ", " ", " ", " ", " ", " ", " ", "a", "s", "s", "o",
      "c", "i", "a", "t", "e", "d", " ", "u", "s", "e", "r", " ", "i", "d",
      "/", "u", "i", "d", " ", "m", "a", "p", "p", "i", "n", "g", " ", "w",
      "i", "l", "l", " ", "b", "e", " ", "c", "r", "e", "a", "t", "e", "d",
      ".", "\n">>

\* parser.format_help()
format_help == format_usage \o help_sections

\* parser.print_help(): what the help action writes on sys.stdout, one
\* entry holding the whole text
print_help == <<format_help>>

---------------------------------------------------------------------------
(* validate_ids *)

\* variant: the upper limit taken as exclusive
InRange_exclusive_max(n) == min_id <= n /\ n < max_id

InRange(n) == min_id <= n /\ n <= max_id

\* the exception raised by the first offending point, NoExc when none is
RECURSIVE validate_ids(_)
validate_ids(id_list) ==
    IF id_list = <<>> THEN NoExc
    ELSE LET p == Head(id_list) IN
         IF ~InRange(p[2]) THEN IdError(p[2], p[1])
         ELSE IF ~InRange(p[3]) THEN IdError(p[3], p[1])
         ELSE validate_ids(Tail(id_list))

---------------------------------------------------------------------------
(* create_id_lists *)

\* the four id texts of a combined mapping
lxc_ids(mapping) == Head(split(mapping, "="))
host_ids(mapping) == Last(split(mapping, "="))
lxc_uid(mapping) == Head(split(lxc_ids(mapping), ":"))
lxc_gid(mapping) == Last(split(lxc_ids(mapping), ":"))
host_uid(mapping) == Head(split(host_ids(mapping), ":"))
\* variant: the host gid read from the first component instead of the last
host_gid_first(mapping) == Head(split(host_ids(mapping), ":"))

host_gid(mapping) == Last(split(host_ids(mapping), ":"))

MappingIsInt(mapping) ==
    /\ IsInt(lxc_uid(mapping)) /\ IsInt(host_uid(mapping))
    /\ IsInt(lxc_gid(mapping)) /\ IsInt(host_gid(mapping))

\* the User point and the Group point appended for one combined mapping
mapping_points(mapping) ==
    << <<USER, int(lxc_uid(mapping)), int(host_uid(mapping))>>,
       <<GROUP, int(lxc_gid(mapping)), int(host_gid(mapping))>> >>

OptionIsInt(tok) ==
    IsInt(Head(split(tok, "="))) /\ IsInt(Last(split(tok, "=")))

\* the exception raised while the values of -u or of -g are converted:
\* None has no split (AttributeError), int() rejects a text (ValueError)
RECURSIVE options_exc(_)
options_exc(toks) ==
    IF toks = <<>> THEN NoExc
    ELSE IF Head(toks) = NoneValue THEN AttributeError
    ELSE IF ~OptionIsInt(Head(toks)) THEN ValueError
    ELSE options_exc(Tail(toks))

\* the point appended for one -u or -g value
option_point(id_type, tok) ==
    <<id_type, int(Head(split(tok, "="))), int(Last(split(tok, "=")))>>

RECURSIVE mappings_points(_)
mappings_points(mappings) ==
    IF mappings = <<>> THEN <<>>
    ELSE mapping_points(Head(mappings)) \o mappings_points(Tail(mappings))

RECURSIVE options_points(_, _)
options_points(id_type, toks) ==
    IF toks = <<>> THEN <<>>
    ELSE <<option_point(id_type, Head(toks))>> \o options_points(id_type, Tail(toks))

\* the exception raised while the list is built, in the order of the three
\* loops: mappings, then -u, then -g
conversion_exc(ns) ==
    IF \E i \in 1 .. Len(ns.mappings) : ~MappingIsInt(ns.mappings[i])
    THEN ValueError
    ELSE IF options_exc(ns.user) # NoExc THEN options_exc(ns.user)
    ELSE options_exc(ns.group)

\* the list built before validation: mappings, then -u, then -g
collect_ids(ns) ==
    mappings_points(ns.mappings)
        \o options_points(USER, ns.user)
        \o options_points(GROUP, ns.group)

\* sort key (x[0].sort_order, x[1])
KeyLE(p, q) ==
    \/ sort_order(p[1]) < sort_order(q[1])
    \/ sort_order(p[1]) = sort_order(q[1]) /\ p[2] <= q[2]

\* list.sort is stable: x goes after every element whose key is <= its key
RECURSIVE insert(_, _)
insert(x, sorted) ==
    IF sorted = <<>> THEN <<x>>
    ELSE IF KeyLE(Last(sorted), x) THEN Append(sorted, x)
    ELSE Append(insert(x, Front(sorted)), Last(sorted))

RECURSIVE sort(_)
sort(id_list) ==
    IF id_list = <<>> THEN <<>>
    ELSE insert(Last(id_list), sort(Front(id_list)))

\* the exception create_id_lists raises, NoExc when it returns
create_id_lists_exc(ns) ==
    IF conversion_exc(ns) # NoExc THEN conversion_exc(ns)
    ELSE validate_ids(collect_ids(ns))

\* the list create_id_lists returns
create_id_lists(ns) == sort(collect_ids(ns))

---------------------------------------------------------------------------
(* create_idmaps *)

\* variant: a filler mapped onto the same host ids, without the offset
filler_line_no_offset(t, prev_id, rng) == <<t, prev_id, prev_id, rng>>

\* "\nlxc.idmap = {t} {prev_id} {prev_id + 100000} {rng}"
filler_line(t, prev_id, rng) == <<t, prev_id, prev_id + FillerOffset, rng>>

\* "\nlxc.idmap = {id_type.value} {lxc_id} {host_id} 1"
exact_line(id_type, lxc_id, host_id) == <<id_type, lxc_id, host_id, 1>>

\* variant: the default range one id short of the whole space
create_default_idmap_short(id_type) == <<id_type, 0, 100000, 65535>>

\* "\nlxc.idmap = {id_type.value} 0 100000 65536"
create_default_idmap(id_type) == <<id_type, 0, 100000, 65536>>

\* one iteration of the loop over ids; w is the loop state
loop_body(w, p) ==
    LET id_type == p[1]
        lxc_id == p[2]
        host_id == p[3]
        w1 == IF w.previous_id_type # None /\ id_type # w.previous_id_type
              THEN [output |-> Append(w.output,
                                      filler_line("u", w.prev_id, SpaceSize - w.prev_id)),
                    prev_id |-> 0,
                    previous_id_type |-> id_type]
              ELSE w
        rng == lxc_id - w1.prev_id
        t == IF w1.previous_id_type = None THEN id_type ELSE w1.previous_id_type
    IN [output |-> w1.output \o <<filler_line(t, w1.prev_id, rng),
                                  exact_line(id_type, lxc_id, host_id)>>,
        prev_id |-> lxc_id + 1,
        previous_id_type |-> id_type]

RECURSIVE loop(_, _)
loop(w, id_list) ==
    IF id_list = <<>> THEN w
    ELSE loop(loop_body(w, Head(id_list)), Tail(id_list))

\* ids[0] raises IndexError on an empty list
create_idmaps_exc(id_list) ==
    IF id_list = <<>> THEN IndexError ELSE NoExc

\* the lines create_idmaps returns for a non-empty list
create_idmaps(id_list) ==
    LET start == [output |-> IF id_list[1][1] = GROUP
                             THEN <<create_default_idmap(USER)>> ELSE <<>>,
                  prev_id |-> 0,
                  previous_id_type |-> None]
        w == loop(start, id_list)
        finished == Append(w.output,
                           filler_line(w.previous_id_type, w.prev_id,
                                       SpaceSize - w.prev_id))
    IN IF w.previous_id_type = USER
       THEN Append(finished, create_default_idmap(GROUP))
       ELSE finished

ConfHeader == <<"# Add to /etc/pve/lxc/<container_id>.conf:">>

create_conf_content(id_list) == <<ConfHeader>> \o create_idmaps(id_list)

---------------------------------------------------------------------------
(* create_subuid_subgid_info *)

SubuidHeader == <<"# Add to /etc/subuid:">>
SubgidHeader == <<"# Add to /etc/subgid:">>
BlankLine == <<>>

\* "\nroot:{id}:1"
root_line(host_id) == <<"root", host_id, 1>>

RECURSIVE host_lines(_, _)
host_lines(id_type, id_list) ==
    IF id_list = <<>> THEN <<>>
    ELSE (IF Head(id_list)[1] = id_type
          THEN <<root_line(Head(id_list)[3])>> ELSE <<>>)
         \o host_lines(id_type, Tail(id_list))

\* variant: the Group host ids listed under subuid and the User ones under
\* subgid
create_subuid_subgid_info_swapped(id_list) ==
    <<BlankLine, SubuidHeader>> \o host_lines(GROUP, id_list)
        \o <<BlankLine, SubgidHeader>> \o host_lines(USER, id_list)

create_subuid_subgid_info(id_list) ==
    <<BlankLine, SubuidHeader>> \o host_lines(USER, id_list)
        \o <<BlankLine, SubgidHeader>> \o host_lines(GROUP, id_list)

---------------------------------------------------------------------------
(* main *)

Init ==
    /\ IsArgv(argv)
    /\ pc = "parse_args"
    /\ args = EmptyArgs
    /\ ids = <<>>
    /\ output = <<>>
    /\ stdout = <<>>
    /\ exc = NoExc

\* args = parser.parse_args(): the parser exits (after the help message when
\* the help action ran), or returns the namespace
ParseArgs ==
    /\ pc = "parse_args"
    /\ LET st == parse_known_args(Tail(argv))
       IN IF exit_status(st) # NoExit
          THEN /\ exc' = SystemExit(exit_status(st))
               /\ stdout' = IF exit_status(st) = "0" THEN print_help
                             ELSE stdout
               /\ pc' = "exited"
               /\ UNCHANGED args
          ELSE /\ args' = namespace(st)
               /\ pc' = "validate_args"
               /\ UNCHANGED <<exc, stdout>>
    /\ UNCHANGED <<argv, ids, output>>

\* the message sys.exit is given by validate_args
NoArguments == "No arguments provided. Please provide at least one argument."

\* validate_args(): sys.exit(...) when sys.argv has the program name only
ValidateArgs ==
    /\ pc = "validate_args"
    /\ IF Len(argv) = 1
       THEN /\ exc' = SystemExit(NoArguments)
            /\ pc' = "exited"
       ELSE /\ pc' = "create_id_lists"
            /\ UNCHANGED exc
    /\ UNCHANGED <<argv, args, ids, output, stdout>>

\* ids = create_id_lists(args)
CreateIdLists ==
    /\ pc = "create_id_lists"
    /\ LET raised == create_id_lists_exc(args)
       IN IF raised # NoExc
          THEN /\ exc' = raised
               /\ pc' = "raised"
               /\ UNCHANGED ids
          ELSE /\ ids' = create_id_lists(args)
               /\ pc' = "create_conf_content"
               /\ UNCHANGED exc
    /\ UNCHANGED <<argv, args, output, stdout>>

\* output += create_conf_content(ids)
CreateConfContent ==
    /\ pc = "create_conf_content"
    /\ IF create_idmaps_exc(ids) # NoExc
       THEN /\ exc' = create_idmaps_exc(ids)
            /\ pc' = "raised"
            /\ UNCHANGED output
       ELSE /\ output' = output \o create_conf_content(ids)
            /\ pc' = "create_subuid_subgid_info"
            /\ UNCHANGED exc
    /\ UNCHANGED <<argv, args, ids, stdout>>

\* output += create_subuid_subgid_info(ids)
CreateSubuidSubgidInfo ==
    /\ pc = "create_subuid_subgid_info"
    /\ output' = output \o create_subuid_subgid_info(ids)
    /\ pc' = "print"
    /\ UNCHANGED <<argv, args, ids, stdout, exc>>

\* print(output): the text and the newline print ends it with
PrintOutput ==
    /\ pc = "print"
    /\ stdout' = output \o <<BlankLine>>
    /\ pc' = "done"
    /\ UNCHANGED <<argv, args, ids, output, exc>>

Next ==
    \/ ParseArgs
    \/ ValidateArgs
    \/ CreateIdLists
    \/ CreateConfContent
    \/ CreateSubuidSubgidInfo
    \/ PrintOutput

Spec == Init /\ [][Next]_vars

---------------------------------------------------------------------------
(* Vocabulary of the properties *)

\* create_conf_content has returned and its lines are in output
Produced == pc \in {"create_subuid_subgid_info", "print", "done"}

\* create_id_lists has returned or raised
Listed == pc \in {"raised", "create_conf_content", "create_subuid_subgid_info",
                  "print", "done"}

IsIdmapLine(line) == Len(line) = 4

\* the range records of the output, in emission order
IdmapLines == SelectSeq(output, IsIdmapLine)

IsUserLine(line) == line[1] = USER
IsGroupLine(line) == line[1] = GROUP

Records(class) ==
    IF class = USER THEN SelectSeq(IdmapLines, IsUserLine)
    ELSE SelectSeq(IdmapLines, IsGroupLine)

Classes == {USER, GROUP}

Count(seq, x) == Cardinality({i \in 1 .. Len(seq) : seq[i] = x})

\* records in ascending container_start order, ties kept in emission order
RECURSIVE ByStart(_)
ByStart(recs) ==
    IF recs = <<>> THEN <<>>
    ELSE LET m == CHOOSE i \in 1 .. Len(recs) :
                      /\ \A j \in 1 .. Len(recs) : recs[i][2] <= recs[j][2]
                      /\ \A j \in 1 .. (i - 1) : recs[j][2] # recs[i][2]
         IN <<recs[m]>> \o ByStart(SubSeq(recs, 1, m - 1) \o SubSeq(recs, m + 1, Len(recs)))

Covers(recs) ==
    /\ recs # <<>>
    /\ recs[1][2] = 0
    /\ \A i \in 1 .. (Len(recs) - 1) : recs[i][2] + recs[i][4] = recs[i + 1][2]
    /\ Last(recs)[2] + Last(recs)[4] = 65536

\* two points of one class with the same container id
HasDuplicate(id_list) ==
    \E i, j \in 1 .. Len(id_list) :
        i < j /\ id_list[i][1] = id_list[j][1] /\ id_list[i][2] = id_list[j][2]

PointRecord(p) == <<p[1], p[2], p[3], 1>>

IsExplicit(line) == \E i \in 1 .. Len(ids) : line = PointRecord(ids[i])

---------------------------------------------------------------------------
(* Properties *)

\* C1: for each class the emitted records, in ascending container_start
\* order, start at 0, chain start + length = next start, and end at 65536.
C1_Coverage ==
    Produced => \A class \in Classes : Covers(ByStart(Records(class)))

\* C2: every validated point (class, c, h) has exactly one record
\* (class, c, h, 1) in the output.
C2_ExactlyOneRecordPerPoint ==
    Produced => \A i \in 1 .. Len(ids) : Count(IdmapLines, PointRecord(ids[i])) = 1

\* C3: two points of one class with the same container id are rejected:
\* no output is produced for them and no record of length <= 0 is emitted.
C3_DuplicateRejected ==
    HasDuplicate(ids) =>
        /\ ~Produced
        /\ output = <<>>
        /\ stdout = <<>>

\* C4: create_id_lists raises the out-of-range error, with nothing produced,
\* exactly when the tokens convert to points and some point has a container
\* id or a host id outside [1, 65536].
C4_RangeValidation ==
    Listed =>
        LET pts == collect_ids(args)
            SomeOutside == \E i \in 1 .. Len(pts) :
                               \/ pts[i][2] < 1 \/ pts[i][2] > 65536
                               \/ pts[i][3] < 1 \/ pts[i][3] > 65536
        IN /\ (exc.type = "IdError") <=> (conversion_exc(args) = NoExc /\ SomeOutside)
           /\ exc.type = "IdError" => (ids = <<>> /\ output = <<>> /\ stdout = <<>>)

\* a Group point with an accepted container id 1 and a rejected host id 65537
C4_Witness ==
    /\ pc = "raised"
    /\ exc.type = "IdError"
    /\ \E i \in 1 .. Len(collect_ids(args)) :
           collect_ids(args)[i] = <<GROUP, 1, 65537>>
    /\ \A i \in 1 .. Len(collect_ids(args)) :
           collect_ids(args)[i][2] \in {1, 65536}

\* C5: a class with no explicit point has exactly the one record
\* (class, 0, 100000, 65536).
C5_DefaultClass ==
    Produced =>
        \A class \in Classes :
            (\A i \in 1 .. Len(ids) : ids[i][1] # class)
                => Records(class) = << <<class, 0, 100000, 65536>> >>

\* only Group points were given and the output is printed
C5_Witness ==
    /\ pc = "done"
    /\ ids # <<>>
    /\ \A i \in 1 .. Len(ids) : ids[i][1] = GROUP
    /\ Records(USER) # <<>>

\* C6: every User record precedes every Group record and, within a class,
\* container_start is strictly ascending in emission order.
C6_Ordered ==
    Produced =>
        /\ \A i, j \in 1 .. Len(IdmapLines) :
               (i < j /\ IdmapLines[i][1] = GROUP) => IdmapLines[j][1] = GROUP
        /\ \A class \in Classes :
               \A i \in 1 .. (Len(Records(class)) - 1) :
                   Records(class)[i][2] < Records(class)[i + 1][2]

\* C7: every record that is not the record of an explicit point has
\* host_start = container_start + 100000.
C7_FillerOffset ==
    Produced =>
        LET lines == IdmapLines
        IN \A i \in 1 .. Len(lines) :
               ~IsExplicit(lines[i]) => lines[i][3] = lines[i][2] + 100000

\* both classes have points, so the gap, transition and tail fillers exist
C7_Witness ==
    /\ pc = "done"
    /\ \E i, j \in 1 .. Len(ids) : ids[i][1] = USER /\ ids[j][1] = GROUP
    /\ \E i \in 1 .. Len(IdmapLines) :
           ~IsExplicit(IdmapLines[i]) /\ IdmapLines[i][2] > 0

\* C8: every emitted record has length >= 1.
C8_PositiveLength ==
    Produced => \A i \in 1 .. Len(IdmapLines) : IdmapLines[i][4] >= 1

\* C9: with no mapping token and no option token, main ends by the usage
\* exit with nothing produced, and create_idmaps never receives an empty
\* list.
C9_NoInputIsUsageFailure ==
    (pc \notin {"parse_args", "validate_args"} /\ args = EmptyArgs) =>
        /\ pc = "exited"
        /\ exc.type = "SystemExit"
        /\ output = <<>>
        /\ \A i \in 1 .. Len(stdout) : Len(stdout[i]) \notin {3, 4}

---------------------------------------------------------------------------
(* The token grammar lxc_uid[:lxc_gid][=host_uid[:host_gid]], read by the  *)
(* position of its separators                                              *)

\* position of the first sep in text, 0 when there is none
Pos(text, sep) ==
    IF \E i \in 1 .. Len(text) : text[i] = sep
    THEN CHOOSE i \in 1 .. Len(text) :
             text[i] = sep /\ \A k \in 1 .. (i - 1) : text[k] # sep
    ELSE 0

Before(text, sep) ==
    IF Pos(text, sep) = 0 THEN text ELSE SubSeq(text, 1, Pos(text, sep) - 1)

\* the part after sep, a copy of the part before it when sep is absent
AfterOrCopy(text, sep) ==
    IF Pos(text, sep) = 0 THEN text
    ELSE SubSeq(text, Pos(text, sep) + 1, Len(text))

\* the id a number text was written from
Number(text) == CHOOSE n \in IdValues : str(n) = text

ExpectedUser(tok) ==
    <<USER, Number(Before(Before(tok, "="), ":")),
            Number(Before(AfterOrCopy(tok, "="), ":"))>>

ExpectedGroup(tok) ==
    <<GROUP, Number(AfterOrCopy(Before(tok, "="), ":")),
             Number(AfterOrCopy(AfterOrCopy(tok, "="), ":"))>>

ExpectedOption(class, tok) ==
    <<class, Number(Before(tok, "=")), Number(AfterOrCopy(tok, "="))>>

RECURSIVE ExpectedOfMappings(_)
ExpectedOfMappings(toks) ==
    IF toks = <<>> THEN <<>>
    ELSE <<ExpectedUser(Head(toks)), ExpectedGroup(Head(toks))>>
             \o ExpectedOfMappings(Tail(toks))

RECURSIVE ExpectedOfOptions(_, _)
ExpectedOfOptions(class, toks) ==
    IF toks = <<>> THEN <<>>
    ELSE <<ExpectedOption(class, Head(toks))>>
             \o ExpectedOfOptions(class, Tail(toks))

\* the points the tokens of ns ask for, one entry per request
Asked(ns) ==
    ExpectedOfMappings(ns.mappings)
        \o ExpectedOfOptions(USER, ns.user)
        \o ExpectedOfOptions(GROUP, ns.group)

\* C10: each combined token gives one User point and one Group point, an
\* absent host side copying the container side and an absent group component
\* copying the user component of its side; each -u token gives one User
\* point and each -g token one Group point, the host id defaulting to the
\* container id.  The list returned holds exactly these points.
C10_TokenDecomposition ==
    pc \in {"create_conf_content", "create_subuid_subgid_info", "print", "done"} =>
        LET asked == Asked(args)
        IN /\ Len(ids) = 2 * Len(args.mappings) + Len(args.user) + Len(args.group)
           /\ \A k \in 1 .. Len(asked) : Count(ids, asked[k]) = Count(asked, asked[k])
           /\ \A i \in 1 .. Len(ids) : \E k \in 1 .. Len(asked) : ids[i] = asked[k]

\* a token a:b=c, whose host group id is a copy of the host user id
C10_Witness ==
    /\ pc = "done"
    /\ \E i \in 1 .. Len(args.mappings) :
           LET tok == args.mappings[i] IN
           /\ Pos(Before(tok, "="), ":") > 0
           /\ Pos(tok, "=") > 0
           /\ Pos(AfterOrCopy(tok, "="), ":") = 0
           /\ ExpectedUser(tok)[2] # ExpectedGroup(tok)[2]
           /\ ExpectedUser(tok)[3] # ExpectedUser(tok)[2]
           /\ ExpectedGroup(tok) \in {ids[j] : j \in 1 .. Len(ids)}

---------------------------------------------------------------------------
(* Other ways of supplying the same points *)

\* seq with its elements i and i + 1 exchanged
SwapAt(seq, i) ==
    [k \in 1 .. Len(seq) |-> IF k = i THEN seq[i + 1]
                             ELSE IF k = i + 1 THEN seq[i]
                             ELSE seq[k]]

RemoveAt(seq, i) == SubSeq(seq, 1, i - 1) \o SubSeq(seq, i + 1, Len(seq))

\* the -u token and the -g token that ask for the points of a combined token
UserToken(tok) ==
    Before(Before(tok, "="), ":") \o <<"=">> \o Before(AfterOrCopy(tok, "="), ":")

GroupToken(tok) ==
    AfterOrCopy(Before(tok, "="), ":") \o <<"=">>
        \o AfterOrCopy(AfterOrCopy(tok, "="), ":")

\* ns with two neighbouring tokens of one list exchanged, or with one
\* combined token given as a -u and a -g option instead
SamePoints(ns) ==
    {[ns EXCEPT !.mappings = SwapAt(@, i)] : i \in 1 .. (Len(ns.mappings) - 1)}
    \cup {[ns EXCEPT !.user = SwapAt(@, i)] : i \in 1 .. (Len(ns.user) - 1)}
    \cup {[ns EXCEPT !.group = SwapAt(@, i)] : i \in 1 .. (Len(ns.group) - 1)}
    \cup {[mappings |-> RemoveAt(ns.mappings, i),
           user |-> Append(ns.user, UserToken(ns.mappings[i])),
           group |-> Append(ns.group, GroupToken(ns.mappings[i]))]
          : i \in 1 .. Len(ns.mappings)}

Returned == pc \in {"create_conf_content", "create_subuid_subgid_info", "print", "done"}

\* C11: the list create_id_lists returns is sorted by class (User first) and
\* then by ascending container id, and supplying the same points in another
\* token order or as -u/-g options instead of a combined token gives the
\* same list and the same create_idmaps output.
C11_DependsOnlyOnPoints ==
    Returned =>
        /\ \A i \in 1 .. (Len(ids) - 1) :
               \/ ids[i][1] = USER /\ ids[i + 1][1] = GROUP
               \/ ids[i][1] = ids[i + 1][1] /\ ids[i][2] <= ids[i + 1][2]
        /\ \A ns \in SamePoints(args) :
               /\ create_id_lists_exc(ns) = NoExc
               /\ create_id_lists(ns) = ids
               /\ create_idmaps(create_id_lists(ns)) = create_idmaps(ids)

---------------------------------------------------------------------------
(* The reservation block *)

\* create_subuid_subgid_info has returned and its lines are in output
Reserved == pc \in {"print", "done"}

IsHeading(line, heading) == Len(line) = 1 /\ line = heading

HeadingAt(heading) == CHOOSE i \in 1 .. Len(output) : IsHeading(output[i], heading)

\* the lines under the subuid heading, up to the blank line before the
\* subgid heading, and the lines under the subgid heading
SubuidLines == SubSeq(output, HeadingAt(SubuidHeader) + 1, HeadingAt(SubgidHeader) - 2)
SubgidLines == SubSeq(output, HeadingAt(SubgidHeader) + 1, Len(output))

IsUserPoint(p) == p[1] = USER
IsGroupPoint(p) == p[1] = GROUP

\* lines is one line root:<host_id>:1 per point, in the order of points
ReservesExactly(lines, points) ==
    /\ Len(lines) = Len(points)
    /\ \A k \in 1 .. Len(points) : lines[k] = <<"root", points[k][3], 1>>

\* host id r lies in the host range of some filler record of lines
InFillerRange(r, lines) ==
    \E i \in 1 .. Len(lines) :
        /\ ~IsExplicit(lines[i])
        /\ \/ r = lines[i][3]
           \/ lines[i][3] <= r /\ r < lines[i][3] + lines[i][4]

\* C12: under the subuid heading there is one line root:<host_id>:1 per User
\* point, under the subgid heading that follows one per Group point, both in
\* the sorted order of the points, and no reserved host id belongs to a
\* filler range.
C12_Reservations ==
    Reserved =>
        LET subuid == SubuidLines
            subgid == SubgidLines
            lines == IdmapLines
        IN /\ Count(output, SubuidHeader) = 1
           /\ Count(output, SubgidHeader) = 1
           /\ HeadingAt(SubuidHeader) < HeadingAt(SubgidHeader)
           /\ output[HeadingAt(SubgidHeader) - 1] = BlankLine
           /\ ReservesExactly(subuid, SelectSeq(ids, IsUserPoint))
           /\ ReservesExactly(subgid, SelectSeq(ids, IsGroupPoint))
           /\ \A k \in 1 .. Len(subuid) : ~InFillerRange(subuid[k][2], lines)
           /\ \A k \in 1 .. Len(subgid) : ~InFillerRange(subgid[k][2], lines)

\* User and Group points with different host ids, none equal to its
\* container id, are printed
C12_Witness ==
    /\ pc = "done"
    /\ \E i, j \in 1 .. Len(ids) :
           /\ ids[i][1] = USER /\ ids[j][1] = GROUP
           /\ ids[i][3] # ids[j][3]
           /\ ids[i][3] # ids[i][2]
           /\ ids[j][3] # ids[j][2]
    /\ SubuidLines # <<>>
    /\ SubgidLines # <<>>

---------------------------------------------------------------------------
(* What the out-of-range error tells *)

Outside(n) == n < 1 \/ n > 65536

\* the first point of the list, in the order built, with an id out of range
FirstOutside(pts) ==
    CHOOSE i \in 1 .. Len(pts) :
        /\ Outside(pts[i][2]) \/ Outside(pts[i][3])
        /\ \A k \in 1 .. (i - 1) : ~Outside(pts[k][2]) /\ ~Outside(pts[k][3])

\* the point validate_ids stops at
OffendingPoint(pts) == pts[FirstOutside(pts)]

\* the side of the value validate_ids stops at: the container id is looked
\* at before the host id
OffendingSide(pts) ==
    IF Outside(OffendingPoint(pts)[2]) THEN "container" ELSE "host"

OffendingId(pts) ==
    LET p == OffendingPoint(pts)
    IN IF Outside(p[2]) THEN p[2] ELSE p[3]

OffendingClass(pts) == OffendingPoint(pts)[1]

\* the token with its container side and its host side exchanged
Mirror(tok) ==
    IF Pos(tok, "=") = 0 THEN tok
    ELSE AfterOrCopy(tok, "=") \o <<"=">> \o Before(tok, "=")

MirrorArgs(ns) ==
    [mappings |-> [i \in 1 .. Len(ns.mappings) |-> Mirror(ns.mappings[i])],
     user |-> [i \in 1 .. Len(ns.user) |-> Mirror(ns.user[i])],
     group |-> [i \in 1 .. Len(ns.group) |-> Mirror(ns.group[i])]]

OutOfRangeRaised == pc = "raised" /\ exc.type = "IdError"

\* C13 as stated: the error identifies the offending id, its class and its
\* side, so the same error is never raised for a container-side value by one
\* command line and for a host-side value by the command line with the two
\* sides of every token exchanged.
C13_ErrorIdentifiesSide ==
    OutOfRangeRaised =>
        LET pts == collect_ids(args)
            mirrored == MirrorArgs(args)
        IN /\ exc.id = OffendingId(pts)
           /\ exc.id_type = (IF OffendingClass(pts) = USER THEN "U" ELSE "G")
           /\ create_id_lists_exc(mirrored) = exc
                  => OffendingSide(collect_ids(mirrored)) = OffendingSide(pts)

\* C13 as amended: the error identifies the offending id and the class of its
\* point, the host id when the container id of that point is in range.
C13_ErrorNamesIdAndClass ==
    OutOfRangeRaised =>
        LET pts == collect_ids(args)
            p == OffendingPoint(pts)
        IN /\ exc.id = OffendingId(pts)
           /\ exc.id_type = (IF OffendingClass(pts) = USER THEN "U" ELSE "G")
           /\ OffendingSide(pts) = "host" => (exc.id = p[3] /\ ~Outside(p[2]))

\* a Group point with container id 65536 in range and host id 0 out of range
\* is the first offending point
C13_Witness ==
    /\ OutOfRangeRaised
    /\ LET pts == collect_ids(args)
       IN /\ OffendingSide(pts) = "host"
          /\ OffendingPoint(pts) = <<GROUP, 65536, 0>>
    /\ exc.id = 0
    /\ exc.id_type = "G"

====
